---- MODULE Spec2Model ----
(***************************************************************************)
(* A model of src/smolagents/models.py: the message normalizer             *)
(* (get_clean_message_list), the tool schema builder (get_json_schema),    *)
(* the stop-sequence trimmer (remove_stop_sequences) and the four model    *)
(* adapters with their token-usage fields.                                 *)
(*                                                                         *)
(* Python objects are modelled by a heap: a sequence of message records    *)
(* indexed by address.  A message list is a sequence of addresses, so that *)
(* "the caller's list" and "the deep copy" are different objects and a     *)
(* write through one is or is not visible through the other.  Every slot   *)
(* of a caller's list holds a message object of its own (no dict appears   *)
(* twice in one list).                                                     *)
(*                                                                         *)
(* Message contents are strings; generated texts and stop sequences, which *)
(* the trimmer slices, are sequences of one-character strings.            *)
(***************************************************************************)
EXTENDS Integers, Sequences, FiniteSets, TLC

VARIABLES
    component,              \* which part of the module this behaviour exercises
    pc,                     \* position of the driver inside that part
    heap,                   \* message objects, by address
    message_list,           \* the caller's list: addresses into heap
    original,               \* history: the caller's messages at construction
    role_conversions,       \* the conversion table of the call
    outcome,                \* result of get_clean_message_list on message_list
    second,                 \* result of get_clean_message_list on its own output
    content,                \* the text handed to remove_stop_sequences
    stop_sequences,         \* the stop sequences handed to it
    trimmed,                \* what it returned
    tool,                   \* the Tool handed to get_json_schema
    schema,                 \* what it returned
    model_class,            \* the class of the adapter instance
    last_input_token_count, \* the instance's two usage fields
    last_output_token_count,
    call,                   \* the most recent call on the instance
    token_counts,           \* what get_token_counts last returned
    threads                 \* two calls running at once on the instance

normalizerVars == <<heap, message_list, original, role_conversions, outcome, second>>
trimmerVars == <<content, stop_sequences, trimmed>>
schemaVars == <<tool, schema>>
adapterVars == <<model_class, last_input_token_count, last_output_token_count,
                 call, token_counts, threads>>

vars == <<component, pc, normalizerVars, trimmerVars, schemaVars, adapterVars>>

----------------------------------------------------------------------------
(* Bounds *)

\* longest caller message list
MaxLen == 3

\* longest generated text, longest stop sequence, most stop sequences
MaxText == 3
MaxStopLen == 2
MaxStops == 2

\* most parameters of a tool
MaxParams == 3

----------------------------------------------------------------------------
(* Helpers *)

Range(s) == {s[i] : i \in 1..Len(s)}

----------------------------------------------------------------------------
(* Role model: MessageRole and tool_role_conversions *)

\* [r.value for r in MessageRole], in definition order
roles == <<"user", "assistant", "system", "tool-call", "tool-response">>

\* a role string no member of MessageRole has
UnknownRole == "bot"

tool_role_conversions ==
    [r \in {"tool-call", "tool-response"} |->
        IF r = "tool-call" THEN "assistant" ELSE "user"]

\* role_conversions = {} : the default argument of get_clean_message_list
NoConversions == <<>>

----------------------------------------------------------------------------
(* get_clean_message_list *)

Separator == "\n=======\n"

\* deepcopy(message_list): fresh objects with the same fields, appended to
\* the heap; the copy lists the fresh addresses.
deepcopyAliasing(h, list) == [heap |-> h, list |-> list]

deepcopy(h, list) ==
    [heap |-> h \o [i \in 1..Len(list) |-> h[list[i]]],
     list |-> [i \in 1..Len(list) |-> Len(h) + i]]

\* role not in MessageRole.roles()
InvalidRoleNever(role) == FALSE

InvalidRole(role) == role \notin Range(roles)

\* if role in role_conversions: message["role"] = role_conversions[role]
ConvertNothing(h, m, conv) == h

Convert(h, m, conv) ==
    LET role == h[m].role
    IN  IF role \in DOMAIN conv THEN [h EXCEPT ![m].role = conv[role]] ELSE h

\* len(final_message_list) > 0 and
\* message["role"] == final_message_list[-1]["role"]
ShouldMergeNever(h, final, m) == FALSE

ShouldMerge(h, final, m) ==
    /\ Len(final) > 0
    /\ h[m].role = h[final[Len(final)]].role

\* final_message_list[-1]["content"] += "\n=======\n" + message["content"]
MergeDroppingContent(h, final, m) ==
    [h EXCEPT ![final[Len(final)]].content = @ \o Separator]

Merge(h, final, m) ==
    [h EXCEPT ![final[Len(final)]].content = @ \o Separator \o h[m].content]

\* One iteration of "for message in message_list" on message object m.
\* st.examined, st.conversions and st.merges count the loop's steps.
CleanStepCompareBeforeConvert(st, m, conv) ==
    LET role == st.heap[m].role
        merge == ShouldMerge(st.heap, st.final, m)
        h1 == Convert(st.heap, m, conv)
    IN  IF InvalidRole(role)
        THEN [st EXCEPT !.status = "raised", !.examined = @ + 1]
        ELSE [st EXCEPT
                !.examined = @ + 1,
                !.conversions = IF role \in DOMAIN conv THEN @ + 1 ELSE @,
                !.merges = IF merge THEN @ + 1 ELSE @,
                !.heap = IF merge THEN Merge(h1, st.final, m) ELSE h1,
                !.final = IF merge THEN @ ELSE Append(@, m)]

CleanStep(st, m, conv) ==
    LET role == st.heap[m].role
        h1 == Convert(st.heap, m, conv)
        merge == ShouldMerge(h1, st.final, m)
    IN  IF InvalidRole(role)
        THEN [st EXCEPT !.status = "raised", !.examined = @ + 1]
        ELSE [st EXCEPT
                !.examined = @ + 1,
                !.conversions = IF role \in DOMAIN conv THEN @ + 1 ELSE @,
                !.merges = IF merge THEN @ + 1 ELSE @,
                !.heap = IF merge THEN Merge(h1, st.final, m) ELSE h1,
                !.final = IF merge THEN @ ELSE Append(@, m)]

RECURSIVE CleanLoop(_, _, _, _)
CleanLoop(st, copy, i, conv) ==
    IF st.status = "raised" THEN st
    ELSE IF i > Len(copy) THEN [st EXCEPT !.status = "returned"]
    ELSE CleanLoop(CleanStep(st, copy[i], conv), copy, i + 1, conv)

\* The whole call.  The result holds the heap after the call, how the call
\* ended ("returned" or "raised"), the list it returned (final, meaningful
\* only when it returned), the copy it worked on, and the step counters.
get_clean_message_list(h, list, conv) ==
    LET c == deepcopy(h, list)
    IN  CleanLoop([heap |-> c.heap, status |-> "running", final |-> <<>>,
                   copy |-> c.list, examined |-> 0, conversions |-> 0,
                   merges |-> 0],
                  c.list, 1, conv)

\* The messages a list of addresses denotes
Values(h, list) == [i \in 1..Len(list) |-> h[list[i]]]

----------------------------------------------------------------------------
(* The normalizer driven on its own: a caller builds a list, calls         *)
(* get_clean_message_list on it, then calls it again on the result.        *)

Contents == {"x", "y"}

Messages == [role : Range(roles) \cup {UnknownRole}, content : Contents]

\* The tables a caller passes: none, the adapters' default, the single
\* entry of the tool-call example, a chain and a swap (tables whose image
\* meets their domain), and one collapsing every role.
ConversionTables ==
    { NoConversions,
      tool_role_conversions,
      [r \in {"tool-call"} |-> "assistant"],
      [r \in {"tool-call", "assistant"} |->
          IF r = "tool-call" THEN "assistant" ELSE "user"],
      [r \in {"user", "assistant"} |->
          IF r = "user" THEN "assistant" ELSE "user"],
      [r \in Range(roles) |-> "user"] }

NoOutcome ==
    [heap |-> <<>>, status |-> "none", final |-> <<>>, copy |-> <<>>,
     examined |-> 0, conversions |-> 0, merges |-> 0]

NoSchema == [properties |-> <<>>, required |-> <<>>]

IdleNormalizer ==
    /\ heap = <<>>
    /\ message_list = <<>>
    /\ original = <<>>
    /\ role_conversions = NoConversions
    /\ outcome = NoOutcome
    /\ second = NoOutcome

IdleTrimmer ==
    /\ content = <<>>
    /\ stop_sequences = <<>>
    /\ trimmed = <<>>

IdleSchema ==
    /\ tool = [name |-> "", description |-> "", inputs |-> <<>>]
    /\ schema = NoSchema

\* the value of an unset usage field
None == -1

NoCall ==
    [method |-> "none", status |-> "none", error |-> "", messages |-> <<>>,
     stop_given |-> FALSE, stops |-> <<>>, backend_calls |-> 0, tool_calls |-> 0,
     reported |-> <<>>, text |-> <<>>,
     response |-> <<>>, trims |-> 0, before |-> <<None, None>>]

\* No call is running
NoThreads == [calls |-> <<>>, last_writer |-> <<0, 0>>]

IdleAdapter ==
    /\ model_class = ""
    /\ last_input_token_count = None
    /\ last_output_token_count = None
    /\ call = NoCall
    /\ token_counts = <<>>
    /\ threads = NoThreads

InitNormalizer ==
    /\ component = "normalizer"
    /\ pc = "ready"
    /\ IdleTrimmer
    /\ IdleSchema
    /\ IdleAdapter
    /\ \E n \in 0..MaxLen :
          /\ heap \in [1..n -> Messages]
          /\ message_list = [i \in 1..n |-> i]
    /\ original = heap
    /\ role_conversions \in ConversionTables
    /\ outcome = NoOutcome
    /\ second = NoOutcome

\* messages' = get_clean_message_list(message_list, role_conversions)
Normalize ==
    /\ component = "normalizer"
    /\ pc = "ready"
    /\ LET r == get_clean_message_list(heap, message_list, role_conversions)
       IN  /\ heap' = r.heap
           /\ outcome' = r
    /\ pc' = "normalized"
    /\ UNCHANGED <<component, message_list, original, role_conversions, second>>
    /\ UNCHANGED <<trimmerVars, schemaVars, adapterVars>>

\* get_clean_message_list(messages') with the default (empty) table
Renormalize ==
    /\ component = "normalizer"
    /\ pc = "normalized"
    /\ outcome.status = "returned"
    /\ LET r == get_clean_message_list(heap, outcome.final, NoConversions)
       IN  /\ heap' = r.heap
           /\ second' = r
    /\ pc' = "renormalized"
    /\ UNCHANGED <<component, message_list, original, role_conversions, outcome>>
    /\ UNCHANGED <<trimmerVars, schemaVars, adapterVars>>

NextNormalizer == Normalize \/ Renormalize

SpecNormalizer == InitNormalizer /\ [][NextNormalizer]_vars

----------------------------------------------------------------------------
(* remove_stop_sequences.  Texts are sequences of characters. *)

\* s[-k:] in Python: the last k characters; the whole of s when k = 0 (the
\* slice s[0:]) or when s has at most k characters
SliceLast(s, k) ==
    IF k = 0 \/ k >= Len(s) THEN s ELSE SubSeq(s, Len(s) - k + 1, Len(s))

\* s[:-k] in Python: all but the last k characters; empty when k = 0 (the
\* slice s[:0]) or when s has at most k characters
SliceButLast(s, k) ==
    IF k = 0 \/ k >= Len(s) THEN <<>> ELSE SubSeq(s, 1, Len(s) - k)

\* if content[-len(stop_seq):] == stop_seq: content = content[:-len(stop_seq)]
RECURSIVE TrimOneRepeatedly(_, _)
TrimOneRepeatedly(text, stop_seq) ==
    IF Len(stop_seq) > 0 /\ SliceLast(text, Len(stop_seq)) = stop_seq
    THEN TrimOneRepeatedly(SliceButLast(text, Len(stop_seq)), stop_seq)
    ELSE text

TrimOne(text, stop_seq) ==
    IF SliceLast(text, Len(stop_seq)) = stop_seq
    THEN SliceButLast(text, Len(stop_seq))
    ELSE text

\* for stop_seq in stop_sequences: ...; return content
RECURSIVE remove_stop_sequences(_, _)
remove_stop_sequences(text, stops) ==
    IF stops = <<>> THEN text
    ELSE remove_stop_sequences(TrimOne(text, Head(stops)), Tail(stops))

Alphabet == {"a", "b"}

SeqsUpTo(S, n) == UNION {[1..k -> S] : k \in 0..n}

InitTrimmer ==
    /\ component = "trimmer"
    /\ pc = "ready"
    /\ content \in SeqsUpTo(Alphabet, MaxText)
    /\ stop_sequences \in SeqsUpTo(SeqsUpTo(Alphabet, MaxStopLen), MaxStops)
    /\ trimmed = <<>>
    /\ IdleNormalizer
    /\ IdleSchema
    /\ IdleAdapter

\* trimmed = remove_stop_sequences(content, stop_sequences)
Trim ==
    /\ component = "trimmer"
    /\ pc = "ready"
    /\ trimmed' = remove_stop_sequences(content, stop_sequences)
    /\ pc' = "trimmed"
    /\ UNCHANGED <<component, content, stop_sequences, normalizerVars, schemaVars,
                   adapterVars>>

NextTrimmer == Trim

SpecTrimmer == InitTrimmer /\ [][NextTrimmer]_vars

----------------------------------------------------------------------------
(* get_json_schema.  tool.inputs, a dict in insertion order, is a sequence *)
(* of items [key, value]; a value has a type, a description and, when      *)
(* has_nullable, a nullable flag.                                          *)

\* if not ("nullable" in value and value["nullable"]): required.append(key)
IsRequiredWithoutNullableKey(value) == ~value.has_nullable

IsRequired(value) == ~(value.has_nullable /\ value.nullable)

\* if value["type"] == "any": value["type"] = "string"
RewriteType(value) ==
    IF value.type = "any" THEN [value EXCEPT !.type = "string"] ELSE value

\* for key, value in properties.items(): ...
RECURSIVE SchemaLoop(_, _, _)
SchemaLoop(properties, required, i) ==
    IF i > Len(properties)
    THEN [properties |-> properties, required |-> required]
    ELSE LET item == properties[i]
         IN  SchemaLoop(
                [properties EXCEPT ![i].value = RewriteType(item.value)],
                IF IsRequired(item.value) THEN Append(required, item.key)
                                          ELSE required,
                i + 1)

\* properties is a deep copy of tool.inputs: the loop's writes do not reach
\* the tool.
get_json_schema(t) ==
    LET r == SchemaLoop(t.inputs, <<>>, 1)
    IN  [type |-> "function",
         function |->
            [name |-> t.name,
             description |-> t.description,
             parameters |->
                [type |-> "object",
                 properties |-> r.properties,
                 required |-> r.required]]]

ParamNames == <<"a", "b", "c", "d", "e">>

ParamTypes == {"any", "string", "integer"}

\* nullable: true, nullable: false, and no nullable key
ParamValues ==
    { v \in [type : ParamTypes, description : {"doc"},
             has_nullable : BOOLEAN, nullable : BOOLEAN] :
        v.has_nullable \/ ~v.nullable }

InitSchema ==
    /\ component = "schema"
    /\ pc = "ready"
    /\ \E n \in 0..MaxParams :
        \E keys \in [1..n -> {ParamNames[i] : i \in 1..MaxParams}] :
        \E values \in [1..n -> ParamValues] :
            /\ \A i, j \in 1..n : i # j => keys[i] # keys[j]
            /\ tool = [name |-> "tool", description |-> "does",
                       inputs |-> [i \in 1..n |->
                                      [key |-> keys[i], value |-> values[i]]]]
    /\ schema = NoSchema
    /\ IdleNormalizer
    /\ IdleTrimmer
    /\ IdleAdapter

\* schema = get_json_schema(tool)
BuildSchema ==
    /\ component = "schema"
    /\ pc = "ready"
    /\ schema' = get_json_schema(tool)
    /\ pc' = "built"
    /\ UNCHANGED <<component, tool, normalizerVars, trimmerVars, adapterVars>>

NextSchema == BuildSchema

SpecSchema == InitSchema /\ [][NextSchema]_vars

----------------------------------------------------------------------------
(* The model adapters: Model and its subclasses HfApiModel,                *)
(* TransformersModel, LiteLLMModel and PortkeyModel.  The backend (the     *)
(* inference client, the local model and tokenizer, litellm) is not part   *)
(* of the module: its answer to a call is an input of the call.  A method  *)
(* is an operator from the instance's usage fields and the call's inputs   *)
(* to the call's record, whose "counts" are the fields after the call.     *)

ModelClasses == {"HfApiModel", "TransformersModel", "LiteLLMModel", "PortkeyModel"}

\* self.last_input_token_count = usage.prompt_tokens
\* self.last_output_token_count = usage.completion_tokens
RecordUsageSwapped(usage) == <<usage.completion_tokens, usage.prompt_tokens>>

RecordUsage(usage) == <<usage.prompt_tokens, usage.completion_tokens>>

\* A call that raised: no response, the usage fields as given
Raised(method, error, counts, backend_calls, backend) ==
    [method |-> method, status |-> "raised", error |-> error,
     backend_calls |-> backend_calls,
     reported |-> IF backend_calls = 0 THEN <<>>
                  ELSE <<backend.usage.prompt_tokens, backend.usage.completion_tokens>>,
     text |-> IF backend_calls = 0 THEN <<>> ELSE backend.content,
     response |-> <<>>, trims |-> 0, counts |-> counts]

\* A call that returned response after the backend answered
Returned(method, counts, backend, response, trims) ==
    [method |-> method, status |-> "returned", error |-> "",
     backend_calls |-> 1,
     reported |-> <<backend.usage.prompt_tokens, backend.usage.completion_tokens>>,
     text |-> backend.content,
     response |-> response, trims |-> trims, counts |-> counts]

\* get_clean_message_list(messages, role_conversions=tool_role_conversions)
\* raises on the caller's messages
CleanRaises(messages) ==
    get_clean_message_list(messages, [i \in 1..Len(messages) |-> i],
                           tool_role_conversions).status = "raised"

\* generate of the instance's class.  stop_given is FALSE when the caller
\* passed stop_sequences = None.
generate(cls, counts, messages, stop_given, stops, backend) ==
    IF cls = "LiteLLMModel"
    THEN \* LiteLLMModel defines no generate: Model.generate
         Raised("generate", "NotImplementedError", counts, 0, backend)
    ELSE IF CleanRaises(messages)
    THEN Raised("generate", "ValueError", counts, 0, backend)
    ELSE IF cls = "TransformersModel"
    THEN Returned("generate", RecordUsage(backend.usage), backend,
                  IF stop_given THEN remove_stop_sequences(backend.content, stops)
                                ELSE backend.content,
                  IF stop_given THEN 1 ELSE 0)
    ELSE \* HfApiModel, PortkeyModel
         Returned("generate", RecordUsage(backend.usage), backend,
                  backend.content, 0)

\* __call__ of the instance's class: Model.__call__, which LiteLLMModel
\* overrides.  messages is a list (the isinstance test of Model.__call__
\* passes); stop_sequences = None becomes [] in Model.__call__ and goes to
\* the backend as it is in LiteLLMModel.__call__.
Call(cls, counts, messages, stop_given, stops, backend) ==
    IF cls = "LiteLLMModel"
    THEN IF CleanRaises(messages)
         THEN Raised("__call__", "ValueError", counts, 0, backend)
         ELSE Returned("__call__", RecordUsage(backend.usage), backend,
                       backend.content, 0)
    ELSE LET given == IF stop_given THEN stops ELSE <<>>
             g == generate(cls, counts, messages, TRUE, given, backend)
         IN  IF g.status = "raised"
             THEN [g EXCEPT !.method = "__call__"]
             ELSE [g EXCEPT !.method = "__call__",
                            !.response = remove_stop_sequences(g.response, given),
                            !.trims = @ + 1]

\* get_tool_call with the two usage assignments moved before the extraction
\* of the first tool call
get_tool_callUsageFirst(cls, counts, messages, stop_given, stops, backend) ==
    IF CleanRaises(messages)
    THEN Raised("get_tool_call", "ValueError", counts, 0, backend)
    ELSE IF cls = "TransformersModel"
    THEN IF backend.parsable
         THEN Returned("get_tool_call", RecordUsage(backend.usage), backend,
                       <<>>, IF stop_given THEN 1 ELSE 0)
         ELSE Raised("get_tool_call", "ParseError", RecordUsage(backend.usage),
                     1, backend)
    ELSE IF backend.tool_calls = 0
    THEN Raised("get_tool_call", "IndexError", RecordUsage(backend.usage),
                1, backend)
    ELSE IF cls = "LiteLLMModel" /\ ~backend.parsable
    THEN Raised("get_tool_call", "ParseError", RecordUsage(backend.usage),
                1, backend)
    ELSE Returned("get_tool_call", RecordUsage(backend.usage), backend, <<>>, 0)

\* get_tool_call of the instance's class.  backend.tool_calls is the number
\* of tool calls in the answer; backend.parsable tells whether the answer's
\* arguments (LiteLLMModel: json.loads) or text (TransformersModel:
\* parse_json_tool_call) parse.
get_tool_call(cls, counts, messages, stop_given, stops, backend) ==
    IF CleanRaises(messages)
    THEN Raised("get_tool_call", "ValueError", counts, 0, backend)
    ELSE IF cls = "TransformersModel"
    THEN IF backend.parsable
         THEN Returned("get_tool_call", RecordUsage(backend.usage), backend,
                       <<>>, IF stop_given THEN 1 ELSE 0)
         ELSE Raised("get_tool_call", "ParseError", RecordUsage(backend.usage),
                     1, backend)
    ELSE IF backend.tool_calls = 0
    THEN Raised("get_tool_call", "IndexError", counts, 1, backend)
    ELSE IF cls = "LiteLLMModel" /\ ~backend.parsable
    THEN Raised("get_tool_call", "ParseError", RecordUsage(backend.usage),
                1, backend)
    ELSE Returned("get_tool_call", RecordUsage(backend.usage), backend, <<>>, 0)

\* get_token_counts()
get_token_counts(counts) ==
    [input_token_count |-> counts[1], output_token_count |-> counts[2]]

\* The inputs of the calls
CallerMessages ==
    { << [role |-> "tool-call", content |-> "x"],
         [role |-> "assistant", content |-> "y"] >>,
      << [role |-> "user", content |-> "x"],
         [role |-> UnknownRole, content |-> "y"] >> }

CallerStops == { <<>>, << <<"a">> >> }

BackendTexts == { <<"b">>, <<"b", "a">>, <<"b", "a", "a">> }

Usages == [prompt_tokens : {1, 3}, completion_tokens : {0, 2}]

\* The backend is reached only with cleaned messages: a call whose messages
\* do not clean has no answer to draw.
AnswersFor(messages, answers) ==
    IF CleanRaises(messages) THEN {CHOOSE a \in answers : TRUE} ELSE answers

\* Answers to a completion, and to a tool-calling completion
TextAnswers ==
    [content : BackendTexts, usage : Usages, tool_calls : {0}, parsable : {TRUE}]

ToolAnswers ==
    [content : {<<"b">>}, usage : Usages, tool_calls : {0, 1}, parsable : BOOLEAN]

InitAdapter ==
    /\ component = "adapter"
    /\ pc = "constructed"
    /\ model_class \in ModelClasses
    /\ last_input_token_count = None
    /\ last_output_token_count = None
    /\ call = NoCall
    /\ token_counts = <<>>
    /\ threads = NoThreads
    /\ IdleNormalizer
    /\ IdleTrimmer
    /\ IdleSchema

\* The instance's fields and the call's record after a method ran
Finish(r, messages, stop_given, stops, backend) ==
    /\ last_input_token_count' = r.counts[1]
    /\ last_output_token_count' = r.counts[2]
    /\ call' = [method |-> r.method, status |-> r.status, error |-> r.error,
                messages |-> messages,
                stop_given |-> stop_given, stops |-> stops,
                backend_calls |-> r.backend_calls,
                tool_calls |-> IF r.backend_calls = 0 THEN 0 ELSE backend.tool_calls,
                reported |-> r.reported,
                text |-> r.text, response |-> r.response, trims |-> r.trims,
                before |-> <<last_input_token_count, last_output_token_count>>]
    /\ token_counts' = <<>>
    /\ pc' = "called"
    /\ UNCHANGED <<component, model_class, threads, normalizerVars, trimmerVars,
                   schemaVars>>

Counts == <<last_input_token_count, last_output_token_count>>

\* model(messages, stop_sequences)
CallModel ==
    /\ component = "adapter"
    /\ \E messages \in CallerMessages, stop_given \in BOOLEAN, stops \in CallerStops :
       \E backend \in AnswersFor(messages, TextAnswers) :
        /\ stop_given \/ stops = <<>>
        /\ Finish(Call(model_class, Counts, messages, stop_given, stops, backend),
                  messages, stop_given, stops, backend)

\* model.generate(messages, stop_sequences)
Generate ==
    /\ component = "adapter"
    /\ \E messages \in CallerMessages, stop_given \in BOOLEAN, stops \in CallerStops :
       \E backend \in AnswersFor(messages, TextAnswers) :
        /\ stop_given \/ stops = <<>>
        /\ Finish(generate(model_class, Counts, messages, stop_given, stops, backend),
                  messages, stop_given, stops, backend)

\* model.get_tool_call(messages, available_tools, stop_sequences)
GetToolCall ==
    /\ component = "adapter"
    /\ \E messages \in CallerMessages, stop_given \in BOOLEAN, stops \in CallerStops :
       \E backend \in AnswersFor(messages, ToolAnswers) :
        /\ stop_given \/ stops = <<>>
        /\ Finish(get_tool_call(model_class, Counts, messages, stop_given, stops,
                                backend),
                  messages, stop_given, stops, backend)

\* model.get_token_counts()
GetTokenCounts ==
    /\ component = "adapter"
    /\ token_counts' = get_token_counts(Counts)
    /\ pc' = "read"
    /\ UNCHANGED <<component, model_class, last_input_token_count,
                   last_output_token_count, call, threads, normalizerVars,
                   trimmerVars, schemaVars>>

NextAdapter == CallModel \/ Generate \/ GetToolCall \/ GetTokenCounts

SpecAdapter == InitAdapter /\ [][NextAdapter]_vars

----------------------------------------------------------------------------
(* Two calls at once on one instance.  Nothing orders the two threads: a   *)
(* call's steps are the backend's answer (all of the method up to its      *)
(* first field write, or up to its raise), the write of                    *)
(* last_input_token_count, and the write of last_output_token_count, and   *)
(* the steps of the two calls interleave freely.                           *)

Threads == {1, 2}

\* The method a thread runs, on a fresh record of the instance's fields:
\* its counts tell what the call writes, if it writes.
ThreadCall(cls, method, messages, backend) ==
    IF method = "generate"
    THEN generate(cls, <<None, None>>, messages, FALSE, <<>>, backend)
    ELSE get_tool_call(cls, <<None, None>>, messages, FALSE, <<>>, backend)

InitConcurrent ==
    /\ component = "concurrent"
    /\ pc = "running"
    /\ model_class \in ModelClasses
    /\ last_input_token_count = None
    /\ last_output_token_count = None
    /\ call = NoCall
    /\ token_counts = <<>>
    /\ threads = [calls |-> [t \in Threads |->
                               [pc |-> "start", reported |-> <<>>, writes |-> <<>>]],
                  last_writer |-> <<0, 0>>]
    /\ IdleNormalizer
    /\ IdleTrimmer
    /\ IdleSchema

\* Thread t runs its method up to the first field write: the messages are
\* cleaned and the backend answers.  The call ends here when it raises
\* before the writes.
Answer(t) ==
    /\ component = "concurrent"
    /\ threads.calls[t].pc = "start"
    /\ \E method \in {"generate", "get_tool_call"}, messages \in CallerMessages :
       \E backend \in AnswersFor(messages,
                                 IF method = "generate" THEN TextAnswers
                                                        ELSE ToolAnswers) :
          LET r == ThreadCall(model_class, method, messages, backend)
              writes == r.counts # <<None, None>>
          IN  threads' = [threads EXCEPT
                            !.calls[t] = [pc |-> IF writes THEN "answered" ELSE "done",
                                          reported |-> r.reported,
                                          writes |-> IF writes THEN r.counts ELSE <<>>]]
    /\ UNCHANGED <<component, pc, model_class, last_input_token_count,
                   last_output_token_count, call, token_counts, normalizerVars,
                   trimmerVars, schemaVars>>

\* self.last_input_token_count = ...usage.prompt_tokens
WriteInput(t) ==
    /\ component = "concurrent"
    /\ threads.calls[t].pc = "answered"
    /\ last_input_token_count' = threads.calls[t].writes[1]
    /\ threads' = [threads EXCEPT !.calls[t].pc = "wrote_input",
                                  !.last_writer[1] = t]
    /\ UNCHANGED <<component, pc, model_class, last_output_token_count, call,
                   token_counts, normalizerVars, trimmerVars, schemaVars>>

\* self.last_output_token_count = ...usage.completion_tokens
WriteOutput(t) ==
    /\ component = "concurrent"
    /\ threads.calls[t].pc = "wrote_input"
    /\ last_output_token_count' = threads.calls[t].writes[2]
    /\ threads' = [threads EXCEPT !.calls[t].pc = "done",
                                  !.last_writer[2] = t]
    /\ UNCHANGED <<component, pc, model_class, last_input_token_count, call,
                   token_counts, normalizerVars, trimmerVars, schemaVars>>

NextConcurrent == \E t \in Threads : Answer(t) \/ WriteInput(t) \/ WriteOutput(t)

SpecConcurrent == InitConcurrent /\ [][NextConcurrent]_vars

----------------------------------------------------------------------------
(* The whole module: one behaviour exercises one of its parts. *)

Init ==
    InitNormalizer \/ InitTrimmer \/ InitSchema \/ InitAdapter \/ InitConcurrent

Next ==
    NextNormalizer \/ NextTrimmer \/ NextSchema \/ NextAdapter \/ NextConcurrent

Spec == Init /\ [][Next]_vars

----------------------------------------------------------------------------
(* Properties of get_clean_message_list *)

Normalized == component = "normalizer" /\ pc # "ready"

AllRecognized(msgs) == \A i \in 1..Len(msgs) : msgs[i].role \in Range(roles)

\* What the call returned, as messages
Output == Values(outcome.heap, outcome.final)

RECURSIVE JoinContents(_)
JoinContents(msgs) ==
    IF Len(msgs) = 0 THEN ""
    ELSE IF Len(msgs) = 1 THEN msgs[1].content
    ELSE msgs[1].content \o Separator \o JoinContents(Tail(msgs))

\* The input messages that group g of the grouping f collects, in order
RECURSIVE GroupOf(_, _, _, _)
GroupOf(msgs, f, g, i) ==
    IF i > Len(msgs) THEN <<>>
    ELSE (IF f[i] = g THEN <<msgs[i]>> ELSE <<>>) \o GroupOf(msgs, f, g, i + 1)

C3_CallerListUnchanged ==
    component = "normalizer" =>
        /\ Len(message_list) = Len(original)
        /\ Values(heap, message_list) = original

C3_Witness ==
    /\ Normalized
    /\ outcome.status = "returned"
    /\ outcome.conversions > 0
    /\ outcome.merges > 0
    /\ Values(heap, message_list) = original

\* Position of the first message with an unrecognized role (0: none)
FirstUnrecognized(msgs) ==
    IF AllRecognized(msgs) THEN 0
    ELSE CHOOSE i \in 1..Len(msgs) :
            /\ msgs[i].role \notin Range(roles)
            /\ \A j \in 1..(i - 1) : msgs[j].role \in Range(roles)

\* C4 as stated: when the call raises, no conversion and no merge has been
\* performed on any message.
C4_NothingDoneBeforeRaise ==
    (Normalized /\ outcome.status = "raised") =>
        /\ outcome.conversions = 0
        /\ outcome.merges = 0

\* C4, amended: a list with an unrecognized role makes the call raise, and
\* return no list, when the loop reaches the first such message.  That
\* message and every later one are neither converted nor merged; the
\* messages before it have been processed, on the copy only.
C4_RaisesAtFirstUnrecognized ==
    (Normalized /\ ~AllRecognized(original)) =>
        LET k == FirstUnrecognized(original)
            n == Len(original)
        IN  /\ outcome.status = "raised"
            /\ second.status = "none"
            /\ outcome.examined = k
            /\ \A j \in k..n : outcome.heap[outcome.copy[j]] = original[j]
            /\ \A j \in k..n : outcome.copy[j] \notin Range(outcome.final)
            /\ Values(heap, message_list) = original

C4_Witness ==
    /\ Normalized
    /\ outcome.status = "raised"
    /\ outcome.examined = 3
    /\ outcome.conversions > 0
    /\ outcome.merges > 0

\* The role a message has after conversion by the call's table
Converted(role) ==
    IF role \in DOMAIN role_conversions THEN role_conversions[role] ELSE role

ToolCallExample ==
    /\ original = << [role |-> "tool-call", content |-> "x"],
                     [role |-> "assistant", content |-> "y"] >>
    /\ role_conversions = [r \in {"tool-call"} |-> "assistant"]

\* C5: the comparison with the last emitted entry uses converted roles.  An
\* input message starts a new output entry exactly when its converted role
\* differs from its predecessor's converted role, whatever the original
\* roles; and the tool-call example gives one merged assistant entry.
C5_ConvertedBeforeCompared ==
    (Normalized /\ outcome.status = "returned") =>
        /\ Len(Output) =
              Cardinality({i \in 1..Len(original) :
                  \/ i = 1
                  \/ Converted(original[i].role) # Converted(original[i - 1].role)})
        /\ ToolCallExample =>
              Output = << [role |-> "assistant",
                           content |-> "x\n=======\ny"] >>

C5_Witness ==
    /\ Normalized
    /\ outcome.status = "returned"
    /\ ToolCallExample
    /\ Len(Output) = 1

----------------------------------------------------------------------------
(* Properties of remove_stop_sequences *)

EndsWith(text, suffix) ==
    /\ Len(suffix) <= Len(text)
    /\ \A i \in 1..Len(suffix) : text[Len(text) - Len(suffix) + i] = suffix[i]

\* text without its last n characters
DropLast(text, n) == [i \in 1..(Len(text) - n) |-> text[i]]

\* One pass over the stop sequences in order: sequence i is tested once,
\* against the text as the sequences before it left it, and one trailing
\* occurrence of it is removed when that text ends with it.
RECURSIVE SinglePass(_, _, _)
SinglePass(text, stops, i) ==
    IF i > Len(stops) THEN text
    ELSE SinglePass(IF EndsWith(text, stops[i])
                    THEN DropLast(text, Len(stops[i]))
                    ELSE text,
                    stops, i + 1)

\* C6: the result is that of the single ordered pass; it is the text itself
\* when there are no stop sequences or the text ends with none of them.
C6_SingleOrderedPass ==
    (component = "trimmer" /\ pc = "trimmed") =>
        /\ trimmed = SinglePass(content, stop_sequences, 1)
        /\ stop_sequences = <<>> => trimmed = content
        /\ (\A i \in 1..Len(stop_sequences) : ~EndsWith(content, stop_sequences[i]))
              => trimmed = content

\* The second sequence trims after the first has, one occurrence each, and
\* the first is not tested again although the result ends with it.
C6_Witness ==
    /\ component = "trimmer"
    /\ pc = "trimmed"
    /\ content = <<"b", "a", "b">>
    /\ stop_sequences = << <<"b">>, <<"a">> >>
    /\ trimmed = <<"b">>

----------------------------------------------------------------------------
(* Properties of get_json_schema *)

Built == component = "schema" /\ pc = "built"

Parameters == schema.function.parameters

MarkedNullable(value) == value.has_nullable /\ value.nullable

\* C8: the properties are the tool's inputs, name by name in the same
\* order, with type "any" emitted as "string" and nothing else changed; the
\* required list holds exactly the names not marked nullable: true, each
\* once, in input order.
C8_SchemaOfTool ==
    Built =>
        LET inputs == tool.inputs
            props == Parameters.properties
            req == Parameters.required
        IN  /\ Len(props) = Len(inputs)
            /\ \A i \in 1..Len(inputs) :
                  /\ props[i].key = inputs[i].key
                  /\ props[i].value.type =
                        (IF inputs[i].value.type = "any" THEN "string"
                         ELSE inputs[i].value.type)
                  /\ props[i].value.description = inputs[i].value.description
                  /\ props[i].value.has_nullable = inputs[i].value.has_nullable
                  /\ props[i].value.nullable = inputs[i].value.nullable
            /\ Range(req) =
                  {inputs[i].key : i \in {j \in 1..Len(inputs) :
                                            ~MarkedNullable(inputs[j].value)}}
            /\ \A a, b \in 1..Len(req) :
                  a < b =>
                    \E i, j \in 1..Len(inputs) :
                        i < j /\ inputs[i].key = req[a] /\ inputs[j].key = req[b]
            /\ schema.type = "function"
            /\ schema.function.name = tool.name
            /\ schema.function.description = tool.description
            /\ Parameters.type = "object"

\* A tool with an "any" parameter, one marked nullable: false and one marked
\* nullable: true
C8_Witness ==
    /\ Built
    /\ Len(tool.inputs) = 3
    /\ tool.inputs[1].value.type = "any"
    /\ tool.inputs[1].value.has_nullable /\ ~tool.inputs[1].value.nullable
    /\ MarkedNullable(tool.inputs[2].value)
    /\ ~tool.inputs[3].value.has_nullable
    /\ Parameters.required = <<tool.inputs[1].key, tool.inputs[3].key>>

----------------------------------------------------------------------------
(* Properties of the adapters *)

ViaCall ==
    component = "adapter" /\ call.method = "__call__" /\ call.status = "returned"

\* C7: for every adapter class a call through __call__ returns the
\* backend's text with remove_stop_sequences applied exactly once: what one
\* application to that text gives, not the text itself (zero applications)
\* and not the result trimmed again (two).
C7_TrimmedExactlyOnce ==
    ViaCall => call.response = remove_stop_sequences(call.text, call.stops)

\* C9 as stated: every generate or get_tool_call call leaves in the two
\* fields the usage the backend reported for that call.
C9_EveryCallOverwrites ==
    (/\ component = "adapter"
     /\ call.method \in {"generate", "get_tool_call"}
     /\ call.backend_calls = 1) =>
        Counts = call.reported

\* C9, amended: the fields are null until a call; a call that returns, and
\* one that fails only in parsing the answer, leaves in them the usage the
\* backend reported for it; a call that raises before its two assignments
\* (an unrecognized role, an answer with no tool call, LiteLLMModel's
\* missing generate) leaves them as they were; they never go back to null;
\* and get_token_counts returns them as they are.
C9_LastWriteWins ==
    component = "adapter" =>
        /\ call.method = "none" => Counts = <<None, None>>
        /\ call.status = "returned" => Counts = call.reported
        /\ (call.status = "raised" /\ call.error = "ParseError")
              => Counts = call.reported
        /\ (call.status = "raised" /\ call.error # "ParseError")
              => Counts = call.before
        /\ \A i \in 1..2 : call.before[i] # None => Counts[i] # None
        /\ (last_input_token_count = None) <=> (last_output_token_count = None)
        /\ pc = "read" =>
              token_counts = [input_token_count |-> last_input_token_count,
                              output_token_count |-> last_output_token_count]

\* Read after a failed get_tool_call that followed a call with another usage
C9_Witness ==
    /\ component = "adapter"
    /\ pc = "read"
    /\ call.method = "get_tool_call"
    /\ call.error = "IndexError"
    /\ call.before = <<3, 2>>
    /\ call.reported = <<1, 0>>
    /\ token_counts = [input_token_count |-> 3, output_token_count |-> 2]

----------------------------------------------------------------------------
(* Properties of two concurrent calls *)

BothFinished ==
    /\ component = "concurrent"
    /\ \A t \in Threads : threads.calls[t].pc = "done"

Wrote(t) == threads.calls[t].writes # <<>>

\* C11 as stated: once both calls have finished, the pair of counts is the
\* pair the backend reported for one of the two calls, for every
\* interleaving of their field writes.
C11_PairOfOneCall ==
    (BothFinished /\ \A t \in Threads : Wrote(t)) =>
        \E t \in Threads : Counts = threads.calls[t].reported

\* C11, amended: last-writer-wins holds field by field.  Once both calls
\* have finished, each count is the one the backend reported to the call
\* that wrote that field last, so the pair is one call's pair when the same
\* call wrote both fields last (and when only one call wrote), and mixes the
\* two calls' usages otherwise.
C11_LastWriterPerField ==
    BothFinished =>
        /\ \A f \in 1..2 :
              LET w == threads.last_writer[f]
              IN  IF w = 0 THEN Counts[f] = None
                  ELSE Counts[f] = threads.calls[w].reported[f]
        /\ \A t \in Threads :
              (Wrote(t) /\ threads.last_writer = <<t, t>>)
                  => Counts = threads.calls[t].reported
        /\ \A t \in Threads :
              (Wrote(t) /\ \A o \in Threads \ {t} : ~Wrote(o))
                  => Counts = threads.calls[t].reported
        /\ \A f \in 1..2 :
              (threads.last_writer[f] = 0) <=> (\A t \in Threads : ~Wrote(t))

\* Both calls wrote, the first field last by one and the second last by the
\* other
C11_Witness ==
    /\ BothFinished
    /\ \A t \in Threads : Wrote(t)
    /\ threads.last_writer = <<2, 1>>
    /\ threads.calls[1].reported = <<1, 0>>
    /\ threads.calls[2].reported = <<3, 2>>
    /\ Counts = <<3, 0>>

----------------------------------------------------------------------------
(* Properties of failed calls *)

DirectCall ==
    component = "adapter" /\ call.method \in {"generate", "get_tool_call"}

\* C12: a generate or get_tool_call given a list with an unrecognized role
\* raises without the backend having been called and leaves both counts as
\* they were (the error is the role error, except that LiteLLMModel has no
\* generate at all and raises for that); and a get_tool_call of HfApiModel,
\* LiteLLMModel or PortkeyModel whose backend answers with no tool call
\* raises at the extraction of the first call and leaves both counts as
\* they were.
C12_FailedCallKeepsCounts ==
    DirectCall =>
        /\ ~AllRecognized(call.messages) =>
              /\ call.status = "raised"
              /\ call.error =
                    (IF model_class = "LiteLLMModel" /\ call.method = "generate"
                     THEN "NotImplementedError" ELSE "ValueError")
              /\ call.backend_calls = 0
              /\ Counts = call.before
        /\ (/\ AllRecognized(call.messages)
            /\ call.method = "get_tool_call"
            /\ model_class \in {"HfApiModel", "LiteLLMModel", "PortkeyModel"}
            /\ call.tool_calls = 0) =>
              /\ call.status = "raised"
              /\ call.error = "IndexError"
              /\ call.backend_calls = 1
              /\ Counts = call.before

\* An answer with no tool call, after a call that set the counts
C12_Witness ==
    /\ DirectCall
    /\ model_class = "LiteLLMModel"
    /\ call.method = "get_tool_call"
    /\ AllRecognized(call.messages)
    /\ call.tool_calls = 0
    /\ call.backend_calls = 1
    /\ call.before = <<3, 2>>
    /\ call.reported = <<1, 0>>
    /\ Counts = <<3, 2>>

====
